---- MODULE Spec2Model ----
(***************************************************************************)
(* Model of the hybrid BM25 / vector retrieval of                          *)
(* src/archieved_files/hybrid_search.py, of the index build of             *)
(* src/build_vector_db.py, of the smoke test of                            *)
(* src/archieved_files/test_retrieval.py and of the collection loop of     *)
(* src/scrapping_nhtsa/rough_work.py.  Each program has its variables and  *)
(* its specifications; the variables of the other programs rest.           *)
(*                                                                         *)
(* One call of hybrid_search(query, top_k, alpha) is a run of the state    *)
(* machine start -> lex -> vec -> scanned -> combined -> done (or raised   *)
(* when the vector index query raises).  The external collaborators are    *)
(* inputs of the model: the BM25 library is the score vector bm25_scores   *)
(* it returns for the query, the vector index is the ranked point list     *)
(* index_points it answers query_points with and the payload store it      *)
(* answers retrieve with.                                                  *)
(*                                                                         *)
(* Scores are integers; normalized and hybrid scores are exact fractions   *)
(* <<numerator, denominator>> with a positive denominator.  alpha is the   *)
(* fraction alpha / AlphaDen.                                              *)
(*                                                                         *)
(* Spec runs calls with valid parameters on a corpus smaller and a corpus  *)
(* larger than bm25_top_n; SpecParams runs calls with any parameters,      *)
(* SpecMeta calls against every kind of payload store, and SpecRerun       *)
(* repeats a call on the same snapshot in a new process.  SpecQuery runs   *)
(* calls with every query string of up to MaxQueryLen characters.          *)
(* SpecBuild runs main of build_vector_db.py on files of about one and two *)
(* batches, SpecLoad runs it next to the corpus load on every short file,  *)
(* SpecSmoke runs main of test_retrieval.py, SpecScrape the loop of        *)
(* scrape_year.                                                            *)
(***************************************************************************)
EXTENDS Integers, Sequences, FiniteSets, TLC

\* ------------------------------------------------------------------ bounds
bm25_top_n == 20
vec_top_n == 20
ExtraDocs == 2      \* documents of the large corpus beyond bm25_top_n
SmallDocs == 2      \* documents of the small corpus
MaxSeed == 1        \* hash seeds 0..MaxSeed of the interpreter
MaxRuns == 2        \* runs of the same query on the same snapshot
MaxTopK == 3
MaxQueryLen == 2    \* characters of a query string
MaxRecords == 3     \* objects of a short file
ExtraRecords == 1   \* objects of a long file beyond a multiple of BATCH_SIZE
MaxPages == 2       \* result pages of a year
MaxRows == 3        \* rows of a result page
AlphaDen == 2       \* alpha is alpha / AlphaDen

LargeDocs == bm25_top_n + ExtraDocs
Foreign == LargeDocs + 1          \* an id the corpus file does not hold
AllIds == 1..Foreign
ScoreVals == {-1, 0, 2}           \* raw BM25 scores
DenseVals == {-1, 0, 2}           \* raw similarity scores
Alphas == 0..(AlphaDen + 1)       \* AlphaDen + 1 is an alpha above 1.0
ValidAlphas == 0..AlphaDen
TopKs == (-1)..MaxTopK
HashSeeds == 0..MaxSeed
HashMod == 2 ^ 6

NoneVal == "None"                 \* Python's None
EmptyDict == "{}"                 \* an empty mapping
Absent == "absent"                \* the index holds no point of that id
PayloadOf(id) == "payload"        \* a non-empty payload mapping

VARIABLES
    query,           \* the query string, a sequence of characters
    bm25,            \* the BM25 index: term -> weight of the term per position
    bm25_scores,     \* bm25.get_scores(query_tokens): score per corpus position
    argsort_ties,    \* how this build of np.argsort orders equal scores
    index_points,    \* what the vector index ranks nearest to the query
    store,           \* id -> payload the index holds (or Absent)
    alpha, top_k,    \* the call's parameters
    pc,
    bm25_top_ids, max_bm25, min_bm25,
    search_result,
    vector_scores, max_vec_score, min_vec_score,
    results,         \* the list built by the candidate loop
    returned,        \* the value hybrid_search returns
    prev_returned,   \* what the previous run on this snapshot returned
    runs

\* build_vector_db.main and the corpus load of hybrid_search.py
VARIABLES
    records,         \* the objects of the lines of CHUNKS_PATH, in file order
    pos,             \* number of objects the loop of main has taken
    ids_batch,       \* main: ids of the pending batch
    vectors_batch,   \* main: texts of the pending batch
    payloads_batch,  \* main: payloads of the pending batch
    total,           \* main: number of points upserted
    upserts,         \* the point lists client.upsert has received, in order
    bpc,             \* position of main: "idle", "loop", "done", "raised"
    docs,            \* hybrid_search.py: texts of the lexical corpus
    corpus_ids,      \* hybrid_search.py: ids of the lexical corpus
    lpc              \* position of the corpus load: "idle", "load", "loaded", "raised"

\* test_retrieval.main
VARIABLES
    existing_dirs,   \* the candidate directories that exist
    importable,      \* whether qdrant_client can be imported
    client_opens,    \* whether QdrantClient(path=...) returns a client
    query_answer,    \* client.query_points: "raises", "points" or "response"
    jsonl_exists,    \* whether the JSONL file of --jsonl exists
    qdrant_dir,      \* main: the detected directory, or None
    smoke_results,   \* main: results
    output,          \* what the run has printed, in order
    tpc              \* position of main: "idle", "start", "detected",
                     \* "searched", "fallback", "returned", "exit", "raised"

\* rough_work.scrape_year
VARIABLES
    final_complaints, \* scrape_year: the complaints collected, each with the
                      \* number of the complaints page it came from
    opened,           \* number of complaints pages opened so far
    page_no,          \* number of the result page the loop is on
    rows,             \* number of rows of the result page
    row,              \* number of rows the inner loop has taken
    next_button,      \* the 'next' button of the result page, as last seen
    file,             \* the complaints written to the file of the year, or None
    cpc               \* position of scrape_year: "idle", "while", "rows",
                      \* "page", "after", "save", "saved", "raised"

searchVars == <<query, bm25, bm25_scores, argsort_ties, index_points, store, alpha, top_k, pc,
          bm25_top_ids, max_bm25, min_bm25, search_result, vector_scores,
          max_vec_score, min_vec_score, results, returned, prev_returned, runs>>

buildVars == <<records, pos, ids_batch, vectors_batch, payloads_batch, total,
               upserts, bpc, docs, corpus_ids, lpc>>

smokeVars == <<existing_dirs, importable, client_opens, query_answer, jsonl_exists,
               qdrant_dir, smoke_results, output, tpc>>

\* the state of the programs other than hybrid_search
scrapeVars == <<final_complaints, opened, page_no, rows, row, next_button, file, cpc>>

otherVars == <<buildVars, smokeVars, scrapeVars>>

vars == <<searchVars, otherVars>>

\* main of build_vector_db.py and the corpus load are not running
BuildIdle ==
    /\ records = <<>>
    /\ pos = 0
    /\ ids_batch = <<>>
    /\ vectors_batch = <<>>
    /\ payloads_batch = <<>>
    /\ total = 0
    /\ upserts = <<>>
    /\ bpc = "idle"
    /\ docs = <<>>
    /\ corpus_ids = <<>>
    /\ lpc = "idle"

\* main of test_retrieval.py is not running
SmokeIdle ==
    /\ existing_dirs = {}
    /\ importable = FALSE
    /\ client_opens = FALSE
    /\ query_answer = "raises"
    /\ jsonl_exists = FALSE
    /\ qdrant_dir = NoneVal
    /\ smoke_results = NoneVal
    /\ output = <<>>
    /\ tpc = "idle"

\* scrape_year is not running
ScrapeIdle ==
    /\ final_complaints = <<>>
    /\ opened = 0
    /\ page_no = 0
    /\ rows = 0
    /\ row = 0
    /\ next_button = NoneVal
    /\ file = NoneVal
    /\ cpc = "idle"

snapshot == <<query, bm25, bm25_scores, argsort_ties, index_points, store, alpha, top_k>>

\* ------------------------------------------------------------ fractions
Frac(n, d) == <<n, d>>
Zero == Frac(0, 1)
FLess(a, b) == a[1] * b[2] < b[1] * a[2]
FEq(a, b) == a[1] * b[2] = b[1] * a[2]
FLeq(a, b) == a[1] * b[2] <= b[1] * a[2]

\* ------------------------------------------------------------ sequences
Range(s) == {s[i] : i \in DOMAIN s}
Take(s, k) == SubSeq(s, 1, IF k < Len(s) THEN k ELSE Len(s))
RECURSIVE Reverse(_)
Reverse(s) == IF s = <<>> THEN <<>> ELSE Append(Reverse(Tail(s)), Head(s))
SeqMax(s) == CHOOSE x \in Range(s) : \A y \in Range(s) : y <= x
SeqMin(s) == CHOOSE x \in Range(s) : \A y \in Range(s) : x <= y

\* the corpus: ids[i] is the id of the document at position i
ids == [i \in DOMAIN bm25_scores |-> i]
\* id_to_index = {doc_id: idx}; the ids are the positions, so is the inverse
id_to_index == [pid \in DOMAIN bm25_scores |-> ids[pid]]

\* np.argsort(a): the positions of a in ascending order of value.  The
\* default kind is not stable; a build orders equal values one way, always
\* the same way: by ascending position ("stable") or descending ("reversed").
ArgBefore(a, i, j, ties) ==
    \/ a[i] < a[j]
    \/ a[i] = a[j] /\ (IF ties = "stable" THEN i < j ELSE i > j)

InsertAt(s, k, x) == SubSeq(s, 1, k) \o <<x>> \o SubSeq(s, k + 1, Len(s))

RECURSIVE ArgSortPrefix(_, _, _)
ArgSortPrefix(a, n, ties) ==
    IF n = 0 THEN <<>>
    ELSE LET sorted == ArgSortPrefix(a, n - 1, ties)
             k == Cardinality({i \in DOMAIN sorted : ArgBefore(a, sorted[i], n, ties)})
         IN  InsertAt(sorted, k, n)

ArgSort(a, ties) == ArgSortPrefix(a, Len(a), ties)

\* iteration order of a Python set of ids: the order of the hashes in the
\* table, which for str ids depends on the interpreter's hash seed
HashOf(id, seed) == (id * (HashMod + 1 - 2 * seed)) % HashMod

RECURSIVE SetOrder(_, _)
SetOrder(S, seed) ==
    IF S = {} THEN <<>>
    ELSE LET x == CHOOSE y \in S : TRUE
             sorted == SetOrder(S \ {x}, seed)
             k == Cardinality({i \in DOMAIN sorted :
                                  HashOf(sorted[i], seed) < HashOf(x, seed)})
         IN  InsertAt(sorted, k, x)

\* list.sort(key=lambda x: x[1], reverse=True): stable, descending by score
InsertDesc(sorted, x) ==
    LET k == Cardinality({i \in DOMAIN sorted : ~FLess(sorted[i].score, x.score)})
    IN  InsertAt(sorted, k, x)

RECURSIVE SortPrefix(_, _)
SortPrefix(s, n) == IF n = 0 THEN <<>> ELSE InsertDesc(SortPrefix(s, n - 1), s[n])

SortSkipped(s) == s

StableSortDesc(s) == SortPrefix(s, Len(s))

SliceOffByOne(s, k) == Take(s, k + 1)

\* s[:k] of a Python list
Slice(s, k) ==
    IF k >= 0 THEN Take(s, k)
    ELSE IF Len(s) + k > 0 THEN Take(s, Len(s) + k) ELSE <<>>

\* ------------------------------------------------------------ the query
\* text.lower()
LowerChar(c) == IF c = "A" THEN "a" ELSE c

\* string.punctuation, as far as the alphabet of the model holds it
Punctuation == {"."}

\* text.lower().translate(str.maketrans('', '', string.punctuation))
RECURSIVE Normalize(_)
Normalize(text) ==
    IF text = <<>> THEN <<>>
    ELSE IF LowerChar(Head(text)) \in Punctuation THEN Normalize(Tail(text))
         ELSE <<LowerChar(Head(text))>> \o Normalize(Tail(text))

\* str.split(): the maximal runs of characters other than whitespace
RECURSIVE SplitFrom(_, _)
SplitFrom(text, cur) ==
    IF text = <<>> THEN (IF cur = <<>> THEN <<>> ELSE <<cur>>)
    ELSE IF Head(text) = " "
         THEN (IF cur = <<>> THEN <<>> ELSE <<cur>>) \o SplitFrom(Tail(text), <<>>)
         ELSE SplitFrom(Tail(text), Append(cur, Head(text)))

TokenizeWhole(text) == <<Normalize(text)>>

\* lines 30-33
simple_tokenize(text) == SplitFrom(Normalize(text), <<>>)

\* number of documents the BM25 index was built over
corpus_size == Len(bm25[CHOOSE t \in DOMAIN bm25 : TRUE])

\* np.zeros(corpus_size)
RECURSIVE Zeros(_)
Zeros(n) == IF n = 0 THEN <<>> ELSE <<0>> \o Zeros(n - 1)

\* score += ..., element by element
RECURSIVE AddScores(_, _)
AddScores(score, w) ==
    IF score = <<>> THEN <<>>
    ELSE <<Head(score) + Head(w)>> \o AddScores(Tail(score), Tail(w))

\* BM25Okapi.get_scores: an array of zeros to which the weight of every
\* query token is added; a token the index does not hold adds nothing
RECURSIVE get_scores(_)
get_scores(tokens) ==
    IF tokens = <<>> THEN Zeros(corpus_size)
    ELSE IF Head(tokens) \in DOMAIN bm25
         THEN AddScores(get_scores(Tail(tokens)), bm25[Head(tokens)])
         ELSE get_scores(Tail(tokens))

\* ------------------------------------------------------------------ inputs
\* the characters of a query and the query strings of up to MaxQueryLen
Chars == {"a", "A", " ", "."}
Queries == UNION {[1..n -> Chars] : n \in 0..MaxQueryLen}
\* the term the index holds, and the query that asks for it
IndexTerm == <<"a">>
DefaultQuery == <<"a">>
\* score vectors of a corpus of SmallDocs documents, and of a corpus of
\* LargeDocs documents whose first bm25_top_n score alike and whose last
\* ExtraDocs score in ascending order
SmallCorpora == [1..SmallDocs -> ScoreVals]
LargeCorpora ==
    {[i \in 1..LargeDocs |-> IF i <= bm25_top_n THEN b ELSE x[i - bm25_top_n]] :
        b \in {0, 2},
        x \in {y \in [1..ExtraDocs -> ScoreVals] :
                  \A i, j \in 1..ExtraDocs : i < j => y[i] <= y[j]}}

\* the ids the vector index may rank near the query: the last document of
\* the corpus and an id the corpus does not hold
DensePool(n) == {n, Foreign}

\* the payloads the index holds: every point with its payload ("synced"),
\* every point without one ("bare") or with an empty one ("empty"), or only
\* the ranked points ("behind")
StoreProfiles == {"synced", "bare", "empty", "behind"}
StoreOf(profile, ranked) ==
    [id \in AllIds |->
        CASE profile = "synced" -> PayloadOf(id)
          [] profile = "bare"   -> NoneVal
          [] profile = "empty"  -> EmptyDict
          [] OTHER -> IF id \in ranked THEN PayloadOf(id) ELSE Absent]

\* ranked lists of distinct points of the pool, by descending score
PointLists(n, profile) ==
    UNION {
      {[i \in 1..k |-> [id |-> p[i], score |-> sc[i],
                        payload |-> StoreOf(profile, Range(p))[p[i]]]] :
          p \in {q \in [1..k -> DensePool(n)] :
                    \A i, j \in 1..k : i # j => q[i] # q[j]},
          sc \in {t \in [1..k -> DenseVals] :
                    \A i, j \in 1..k : i < j => t[i] >= t[j]}}
      : k \in 0..Cardinality(DensePool(n))}

\* the state at the call of hybrid_search, the inputs drawn from the given
\* sets: the index holds the weights of IndexTerm, and bm25_scores already
\* shows the corpus positions with what the index scores the query
InitFor(queries, weights, profiles, alphas, topks) ==
    /\ query \in queries
    /\ bm25 \in {(IndexTerm :> w) : w \in weights}
    /\ bm25_scores = get_scores(simple_tokenize(query))
    /\ argsort_ties \in {"stable", "reversed"}
    /\ \E profile \in profiles :
         /\ index_points \in PointLists(Len(bm25_scores), profile)
         /\ store = StoreOf(profile, {index_points[i].id : i \in DOMAIN index_points})
    /\ alpha \in alphas
    /\ top_k \in topks
    /\ pc = "start"
    /\ bm25_top_ids = {}
    /\ max_bm25 = 0
    /\ min_bm25 = 0
    /\ search_result = <<>>
    /\ vector_scores = <<>>
    /\ max_vec_score = 0
    /\ min_vec_score = 0
    /\ results = <<>>
    /\ returned = <<>>
    /\ prev_returned = <<>>
    /\ runs = 1
    /\ BuildIdle
    /\ SmokeIdle
    /\ ScrapeIdle

\* calls with the query that asks for the one term of the index
InitOf(corpora, profiles, alphas, topks) ==
    InitFor({DefaultQuery}, corpora, profiles, alphas, topks)

\* calls with valid parameters on either corpus
Init == InitOf(SmallCorpora \cup LargeCorpora, {"synced"}, ValidAlphas, {MaxTopK})

\* calls with any parameters, valid or not
InitParams == InitOf(SmallCorpora, {"synced"}, Alphas, TopKs)

\* calls against every kind of payload store
InitMeta == InitOf(SmallCorpora, StoreProfiles, {1}, {MaxTopK})

\* calls that are repeated
InitRerun == InitOf(SmallCorpora, {"synced"}, ValidAlphas, {MaxTopK})

\* calls with any query string, the empty one included
QueryWeights == [1..SmallDocs -> {0, 2}]
InitQuery == InitFor(Queries, QueryWeights, {"synced"}, ValidAlphas, {MaxTopK})

\* ----------------------------------------------------------------- actions
\* line 64: bm25_scores.max() if bm25_scores.max() > 0 else 1.0
MaxBm25(scores) == IF SeqMax(scores) > 0 THEN SeqMax(scores) ELSE 1

\* line 65
MinBm25(scores) == SeqMin(scores)

\* lines 78, 86-87: the maximum of 0.0 and the points' scores
MaxVec(points) ==
    LET scores == {points[i].score : i \in DOMAIN points} \cup {0}
    IN  CHOOSE x \in scores : \A y \in scores : y <= x

MinVecUntracked(points) == 0

\* lines 79, 88-89: the minimum of 0.0 and the points' scores
MinVec(points) ==
    LET scores == {points[i].score : i \in DOMAIN points} \cup {0}
    IN  CHOOSE x \in scores : \A y \in scores : x <= y

\* lines 55-65: score every document, keep the ids of the top bm25_top_n
Lexical ==
    /\ pc = "start"
    /\ LET query_tokens == simple_tokenize(query)
           scores == get_scores(query_tokens)
           bm25_top_idxs == Take(Reverse(ArgSort(scores, argsort_ties)), bm25_top_n)
       IN  /\ bm25_scores' = scores
           /\ bm25_top_ids' = {ids[bm25_top_idxs[i]] : i \in DOMAIN bm25_top_idxs}
           /\ max_bm25' = MaxBm25(scores)
           /\ min_bm25' = MinBm25(scores)
    /\ pc' = "lex"
    /\ UNCHANGED <<query, bm25, argsort_ties, index_points, store, alpha, top_k,
                   search_result, vector_scores, max_vec_score, min_vec_score,
                   results, returned, prev_returned, runs>>
    /\ UNCHANGED otherVars

\* lines 69-74: the vector index answers with its top vec_top_n points
QueryPoints ==
    /\ pc = "lex"
    /\ search_result' = Take(index_points, vec_top_n)
    /\ pc' = "vec"
    /\ UNCHANGED <<query, bm25, bm25_scores, argsort_ties, index_points, store, alpha, top_k,
                   bm25_top_ids, max_bm25, min_bm25, vector_scores, max_vec_score,
                   min_vec_score, results, returned, prev_returned, runs>>
    /\ UNCHANGED otherVars

\* lines 69-74: the vector index raises; nothing catches it
QueryPointsRaises ==
    /\ pc = "lex"
    /\ pc' = "raised"
    /\ UNCHANGED <<query, bm25, bm25_scores, argsort_ties, index_points, store, alpha, top_k,
                   bm25_top_ids, max_bm25, min_bm25, search_result, vector_scores,
                   max_vec_score, min_vec_score, results, returned, prev_returned, runs>>
    /\ UNCHANGED otherVars

\* lines 76-89: collect the scores of the points, track max and min from 0.0
ScanPoints ==
    /\ pc = "vec"
    /\ max_vec_score' = MaxVec(search_result)
    /\ min_vec_score' = MinVec(search_result)
    /\ vector_scores' =
         [pid \in {search_result[i].id : i \in DOMAIN search_result} |->
            LET last == CHOOSE i \in DOMAIN search_result :
                           /\ search_result[i].id = pid
                           /\ \A j \in DOMAIN search_result :
                                 search_result[j].id = pid => j <= i
            IN  search_result[last].score]
    /\ pc' = "scanned"
    /\ UNCHANGED <<query, bm25, bm25_scores, argsort_ties, index_points, store, alpha, top_k,
                   bm25_top_ids, max_bm25, min_bm25, search_result,
                   results, returned, prev_returned, runs>>
    /\ UNCHANGED otherVars

\* lines 97-100
Bm25Norm(pid) ==
    IF pid \in DOMAIN id_to_index
    THEN IF max_bm25 > min_bm25
         THEN Frac(bm25_scores[id_to_index[pid]] - min_bm25, max_bm25 - min_bm25)
         ELSE Zero
    ELSE Zero

\* lines 101-107
VecNorm(pid) ==
    IF pid \in DOMAIN vector_scores
    THEN IF max_vec_score > min_vec_score
         THEN Frac(vector_scores[pid] - min_vec_score, max_vec_score - min_vec_score)
         ELSE Frac(vector_scores[pid], 1)
    ELSE Zero

\* line 109: alpha * bm25_score + (1 - alpha) * vec_score
Hybrid(b, v) ==
    Frac(alpha * b[1] * v[2] + (AlphaDen - alpha) * v[1] * b[2],
         AlphaDen * b[2] * v[2])

\* client.retrieve(ids=[pid]): the records the index holds for pid
Retrieve(pid) == IF store[pid] = Absent THEN <<>> ELSE <<[id |-> pid, payload |-> store[pid]]>>

\* lines 112-124
ResolveMeta(pid) ==
    LET fromDense ==
            IF pid \in DOMAIN vector_scores
            THEN LET first == CHOOSE i \in DOMAIN search_result :
                                /\ search_result[i].id = pid
                                /\ \A j \in DOMAIN search_result :
                                      search_result[j].id = pid => i <= j
                 IN  search_result[first].payload
            ELSE NoneVal
    IN  IF fromDense # NoneVal THEN fromDense
        ELSE LET res == Retrieve(pid)
             IN  IF res # <<>> THEN res[1].payload ELSE NoneVal

OrEmptyMissing(meta) == meta

\* line 126: meta or {}
OrEmpty(meta) == IF meta = NoneVal \/ meta = EmptyDict THEN EmptyDict ELSE meta

Candidate(pid) ==
    [pid |-> pid,
     score |-> Hybrid(Bm25Norm(pid), VecNorm(pid)),
     meta |-> OrEmpty(ResolveMeta(pid)),
     bm25_score |-> Bm25Norm(pid),
     vec_score |-> VecNorm(pid)]

\* lines 94-126: the loop appends one entry per candidate
RECURSIVE CandidateLoop(_)
CandidateLoop(order) ==
    IF order = <<>> THEN <<>>
    ELSE <<Candidate(Head(order))>> \o CandidateLoop(Tail(order))

\* line 92
candidate_ids == bm25_top_ids \cup DOMAIN vector_scores

\* lines 92-126: one entry per candidate, in the set's iteration order
Combine ==
    /\ pc = "scanned"
    /\ \E seed \in HashSeeds :
         results' = CandidateLoop(SetOrder(candidate_ids, seed))
    /\ pc' = "combined"
    /\ UNCHANGED <<query, bm25, bm25_scores, argsort_ties, index_points, store, alpha, top_k,
                   bm25_top_ids, max_bm25, min_bm25, search_result, vector_scores,
                   max_vec_score, min_vec_score, returned, prev_returned, runs>>
    /\ UNCHANGED otherVars

\* lines 129-130
Return ==
    /\ pc = "combined"
    /\ results' = StableSortDesc(results)
    /\ returned' = Slice(results', top_k)
    /\ pc' = "done"
    /\ UNCHANGED <<query, bm25, bm25_scores, argsort_ties, index_points, store, alpha, top_k,
                   bm25_top_ids, max_bm25, min_bm25, search_result, vector_scores,
                   max_vec_score, min_vec_score, prev_returned, runs>>
    /\ UNCHANGED otherVars

\* the same call again, in a new process, on the same snapshot
Rerun ==
    /\ pc = "done"
    /\ runs < MaxRuns
    /\ prev_returned' = returned
    /\ runs' = runs + 1
    /\ pc' = "start"
    /\ bm25_top_ids' = {}
    /\ max_bm25' = 0
    /\ min_bm25' = 0
    /\ search_result' = <<>>
    /\ vector_scores' = <<>>
    /\ max_vec_score' = 0
    /\ min_vec_score' = 0
    /\ results' = <<>>
    /\ returned' = <<>>
    /\ UNCHANGED snapshot
    /\ UNCHANGED otherVars

Next ==
    \/ Lexical
    \/ QueryPoints
    \/ QueryPointsRaises
    \/ ScanPoints
    \/ Combine
    \/ Return

NextRerun == Next \/ Rerun

Spec == Init /\ [][Next]_vars
SpecParams == InitParams /\ [][Next]_vars
SpecMeta == InitMeta /\ [][Next]_vars
SpecRerun == InitRerun /\ [][NextRerun]_vars
SpecQuery == InitQuery /\ [][Next]_vars

\* ------------------------------------------------------ build_vector_db
\* build_vector_db.py line 12
BATCH_SIZE == 256

\* an object of the file: id and text are numbers other than 0, and 0 stands
\* for a key the object does not hold (obj.get answers None)
NoId == 0
NoText == 0
Kinds == {"good", "notext", "noid", "neither"}
Obj(i, kind) ==
    [id |-> IF kind \in {"noid", "neither"} THEN NoId ELSE i,
     text |-> IF kind \in {"notext", "neither"} THEN NoText ELSE i]

\* short files: every sequence of kinds
ShortFiles ==
    UNION {{[i \in 1..n |-> Obj(i, k[i])] : k \in [1..n -> Kinds]} : n \in 0..MaxRecords}

\* long files: good objects, but for the kind of one of them
LongLengths ==
    {BATCH_SIZE - 1, BATCH_SIZE, BATCH_SIZE + ExtraRecords, 2 * BATCH_SIZE + ExtraRecords}
OddPositions(n) == {1, BATCH_SIZE, n}
LongFiles ==
    UNION {{[i \in 1..n |-> Obj(i, IF i = p THEN k ELSE "good")] :
                p \in OddPositions(n), k \in Kinds} : n \in LongLengths}

\* model.encode(vectors_batch): one vector per text
Encode(text) == <<text>>

\* lines 58-62: the payload of an object
Meta(doc_id, text) == [full_text |-> text, id |-> doc_id]

\* lines 73-76: zip(ids_batch, embeddings, payloads_batch)
ZipLen(a, b, c) ==
    CHOOSE n \in {Len(a), Len(b), Len(c)} : n <= Len(a) /\ n <= Len(b) /\ n <= Len(c)
Points(idsB, vectorsB, payloadsB) ==
    [i \in 1..ZipLen(idsB, vectorsB, payloadsB) |->
        [id |-> idsB[i], vector |-> Encode(vectorsB[i]), payload |-> payloadsB[i]]]

\* hybrid_search is not running
SearchIdle ==
    /\ query = <<>>
    /\ bm25 = (IndexTerm :> <<>>)
    /\ bm25_scores = <<>>
    /\ argsort_ties = "stable"
    /\ index_points = <<>>
    /\ store = <<>>
    /\ alpha = 0
    /\ top_k = 0
    /\ pc = "idle"
    /\ bm25_top_ids = {}
    /\ max_bm25 = 0
    /\ min_bm25 = 0
    /\ search_result = <<>>
    /\ vector_scores = <<>>
    /\ max_vec_score = 0
    /\ min_vec_score = 0
    /\ results = <<>>
    /\ returned = <<>>
    /\ prev_returned = <<>>
    /\ runs = 1

\* the state at the start of main and of the corpus load, on the same file
InitFiles(files, loading) ==
    /\ records \in files
    /\ pos = 0
    /\ ids_batch = <<>>
    /\ vectors_batch = <<>>
    /\ payloads_batch = <<>>
    /\ total = 0
    /\ upserts = <<>>
    /\ bpc = "loop"
    /\ docs = <<>>
    /\ corpus_ids = <<>>
    /\ lpc = loading
    /\ SearchIdle
    /\ SmokeIdle
    /\ ScrapeIdle

InitLoad == InitFiles(ShortFiles, "load")
InitBuild == InitFiles(LongFiles, "idle")

\* lines 43-82: the loop takes the next object of the file
IndexRecord ==
    /\ bpc = "loop"
    /\ pos < Len(records)
    /\ pos' = pos + 1
    /\ LET obj == records[pos + 1]
           doc_id == obj.id       \* line 45
           text == obj.text       \* line 53
       IN  IF doc_id = NoId
           THEN \* line 47: int(None) raises TypeError, which line 48 lets through
                /\ bpc' = "raised"
                /\ UNCHANGED <<ids_batch, vectors_batch, payloads_batch, total, upserts>>
           ELSE IF text = NoText
           THEN \* lines 54-55
                /\ UNCHANGED <<ids_batch, vectors_batch, payloads_batch, total, upserts, bpc>>
           ELSE LET idsB == Append(ids_batch, doc_id)
                    payloadsB == Append(payloads_batch, Meta(doc_id, text))
                    vectorsB == Append(vectors_batch, text)
                    points == Points(idsB, vectorsB, payloadsB)
                IN  IF Len(idsB) >= BATCH_SIZE
                    THEN \* lines 69-82
                         /\ upserts' = Append(upserts, points)
                         /\ total' = total + Len(points)
                         /\ ids_batch' = <<>>
                         /\ vectors_batch' = <<>>
                         /\ payloads_batch' = <<>>
                         /\ UNCHANGED bpc
                    ELSE /\ ids_batch' = idsB
                         /\ vectors_batch' = vectorsB
                         /\ payloads_batch' = payloadsB
                         /\ UNCHANGED <<total, upserts, bpc>>
    /\ UNCHANGED <<records, docs, corpus_ids, lpc>>
    /\ UNCHANGED <<searchVars, smokeVars, scrapeVars>>

\* lines 85-94: the file is exhausted, the rest of the batch is flushed
Flush ==
    /\ bpc = "loop"
    /\ pos = Len(records)
    /\ IF ids_batch # <<>>
       THEN LET points == Points(ids_batch, vectors_batch, payloads_batch)
            IN  /\ upserts' = Append(upserts, points)
                /\ total' = total + Len(points)
       ELSE UNCHANGED <<upserts, total>>
    /\ bpc' = "done"
    /\ UNCHANGED <<records, pos, ids_batch, vectors_batch, payloads_batch,
                   docs, corpus_ids, lpc>>
    /\ UNCHANGED <<searchVars, smokeVars, scrapeVars>>

\* hybrid_search.py lines 12-27 over the objects from position n on: the
\* lists after the loop, or "raised" when int(doc_id) raises TypeError
RECURSIVE LoadFrom(_, _, _)
LoadFrom(n, docsL, idsL) ==
    IF n > Len(records) THEN [docs |-> docsL, ids |-> idsL, raised |-> FALSE]
    ELSE IF records[n].id = NoId THEN [docs |-> docsL, ids |-> idsL, raised |-> TRUE]
    ELSE LoadFrom(n + 1, Append(docsL, records[n].text), Append(idsL, records[n].id))

\* hybrid_search.py lines 12-27: the module loads the corpus
LoadCorpus ==
    /\ lpc = "load"
    /\ LET loaded == LoadFrom(1, <<>>, <<>>)
       IN  /\ docs' = loaded.docs
           /\ corpus_ids' = loaded.ids
           /\ lpc' = IF loaded.raised THEN "raised" ELSE "loaded"
    /\ UNCHANGED <<records, pos, ids_batch, vectors_batch, payloads_batch, total,
                   upserts, bpc>>
    /\ UNCHANGED <<searchVars, smokeVars, scrapeVars>>

NextBuild == IndexRecord \/ Flush
NextLoad == IndexRecord \/ Flush \/ LoadCorpus

SpecBuild == InitBuild /\ [][NextBuild]_vars
SpecLoad == InitLoad /\ [][NextLoad]_vars

\* ------------------------------------------------------- test_retrieval
\* line 28
QDRANT_CANDIDATE_DIRS == <<"qdrant_nhtsa_db", "qdrant_db", "qdrant_nhtsa">>

\* lines 40-44: the first candidate that exists, else None
detect_qdrant_dir ==
    IF \E i \in DOMAIN QDRANT_CANDIDATE_DIRS : QDRANT_CANDIDATE_DIRS[i] \in existing_dirs
    THEN QDRANT_CANDIDATE_DIRS[
             CHOOSE i \in DOMAIN QDRANT_CANDIDATE_DIRS :
                 /\ QDRANT_CANDIDATE_DIRS[i] \in existing_dirs
                 /\ \A j \in 1..(i - 1) : QDRANT_CANDIDATE_DIRS[j] \notin existing_dirs]
    ELSE NoneVal

\* lines 47-79: None, the list of results, or "raised" when an exception
\* leaves the function.  The client is made outside the try blocks, and so
\* is the loop over the answer, which finds p.payload only on points.
try_qdrant_search ==
    IF ~importable THEN NoneVal                  \* lines 48-51
    ELSE IF ~client_opens THEN "raised"          \* line 53
    ELSE IF query_answer = "raises" THEN NoneVal \* lines 54-63
    ELSE IF query_answer = "points" THEN "hits"  \* lines 65-79
    ELSE "raised"                                \* line 67

\* the state at the start of main
InitSmoke ==
    /\ existing_dirs \in SUBSET Range(QDRANT_CANDIDATE_DIRS)
    /\ importable \in BOOLEAN
    /\ client_opens \in BOOLEAN
    /\ query_answer \in {"raises", "points", "response"}
    /\ jsonl_exists \in BOOLEAN
    /\ qdrant_dir = NoneVal
    /\ smoke_results = NoneVal
    /\ output = <<>>
    /\ tpc = "start"
    /\ SearchIdle
    /\ BuildIdle
    /\ ScrapeIdle

smokeEnv == <<existing_dirs, importable, client_opens, query_answer, jsonl_exists>>

\* line 157
DetectQdrantDir ==
    /\ tpc = "start"
    /\ qdrant_dir' = detect_qdrant_dir
    /\ tpc' = "detected"
    /\ UNCHANGED <<smokeEnv, smoke_results, output>>
    /\ UNCHANGED <<searchVars, buildVars, scrapeVars>>

\* lines 158-160: a directory was found, Qdrant is asked
TryQdrantSearch ==
    /\ tpc = "detected"
    /\ qdrant_dir # NoneVal
    /\ LET res == try_qdrant_search
       IN  IF res = "raised"
           THEN /\ tpc' = "raised"
                /\ output' = Append(output, "using_qdrant")
                /\ UNCHANGED smoke_results
           ELSE /\ smoke_results' = res
                /\ output' = Append(output, "using_qdrant")
                /\ tpc' = "searched"
    /\ UNCHANGED <<smokeEnv, qdrant_dir>>
    /\ UNCHANGED <<searchVars, buildVars, scrapeVars>>

\* line 158: no directory was found
NoQdrantDir ==
    /\ tpc = "detected"
    /\ qdrant_dir = NoneVal
    /\ tpc' = "fallback"
    /\ UNCHANGED <<smokeEnv, qdrant_dir, smoke_results, output>>
    /\ UNCHANGED <<searchVars, buildVars, scrapeVars>>

\* lines 161-163
PrintQdrantResults ==
    /\ tpc = "searched"
    /\ smoke_results # NoneVal
    /\ output' = Append(output, "qdrant_results")
    /\ tpc' = "returned"
    /\ UNCHANGED <<smokeEnv, qdrant_dir, smoke_results>>
    /\ UNCHANGED <<searchVars, buildVars, scrapeVars>>

\* line 164
WarnFallback ==
    /\ tpc = "searched"
    /\ smoke_results = NoneVal
    /\ output' = Append(output, "warn_falling_back")
    /\ tpc' = "fallback"
    /\ UNCHANGED <<smokeEnv, qdrant_dir, smoke_results>>
    /\ UNCHANGED <<searchVars, buildVars, scrapeVars>>

\* lines 166-172
JsonlFallback ==
    /\ tpc = "fallback"
    /\ IF ~jsonl_exists
       THEN /\ tpc' = "exit"
            /\ output' = Append(output, "JSONL not found")
            /\ UNCHANGED smoke_results
       ELSE /\ smoke_results' = "ranked"
            /\ output' = output \o <<"using_jsonl", "fallback_results">>
            /\ tpc' = "returned"
    /\ UNCHANGED <<smokeEnv, qdrant_dir>>
    /\ UNCHANGED <<searchVars, buildVars, scrapeVars>>

NextSmoke ==
    \/ DetectQdrantDir
    \/ TryQdrantSearch
    \/ NoQdrantDir
    \/ PrintQdrantResults
    \/ WarnFallback
    \/ JsonlFallback

SpecSmoke == InitSmoke /\ [][NextSmoke]_vars

\* ------------------------------------------------------------ rough_work
\* rough_work.py line 160
MAX_COMPLAINTS == 20

\* numbers of complaints extract_complaints_data finds on a complaints page
ComplaintCounts == {0, 3, 7}
\* numbers of rows of a result page
RowCounts == {0, MaxRows}
\* numbers of links td a finds in a row
LinkCounts == {1, 2, 3}

TakeFive(complaints, needed) == Take(complaints, 5)

\* line 185: complaints[:min(5, needed)]
TakeNeeded(complaints, needed) == Take(complaints, IF 5 < needed THEN 5 ELSE needed)

\* the state at line 159
InitScrape ==
    /\ final_complaints = <<>>
    /\ opened = 0
    /\ page_no = 1
    /\ rows = 0
    /\ row = 0
    /\ next_button = NoneVal
    /\ file = NoneVal
    /\ cpc = "while"
    /\ SearchIdle
    /\ BuildIdle
    /\ SmokeIdle

\* lines 162-166: the test of the while loop, then the rows of the page;
\* wait_for_selector raises when no table shows up
ResultPage ==
    /\ cpc = "while"
    /\ IF Len(final_complaints) < MAX_COMPLAINTS
       THEN \/ \E n \in RowCounts : rows' = n /\ row' = 0 /\ cpc' = "rows"
            \/ cpc' = "raised" /\ UNCHANGED <<rows, row>>
       ELSE cpc' = "save" /\ UNCHANGED <<rows, row>>
    /\ UNCHANGED <<final_complaints, opened, page_no, next_button, file>>
    /\ UNCHANGED <<searchVars, buildVars, smokeVars>>

\* lines 168-180: the next row of the page, up to the opening of its
\* complaints page; links[2] raises IndexError on a row of two links
NextRow ==
    /\ cpc = "rows"
    /\ IF row = rows \/ Len(final_complaints) >= MAX_COMPLAINTS
       THEN cpc' = "after" /\ UNCHANGED <<row, opened>>
       ELSE /\ row' = row + 1
            /\ \E links \in LinkCounts, investigation_link \in BOOLEAN :
                  IF links < 2 THEN UNCHANGED <<cpc, opened>>
                  ELSE IF links < 3 THEN cpc' = "raised" /\ UNCHANGED opened
                  ELSE IF ~investigation_link THEN UNCHANGED <<cpc, opened>>
                  ELSE opened' = opened + 1 /\ cpc' = "page"
    /\ UNCHANGED <<final_complaints, page_no, rows, next_button, file>>
    /\ UNCHANGED <<searchVars, buildVars, smokeVars>>

\* lines 182-199: the complaints of the opened page, then its 'next' button
ComplaintsPage ==
    /\ cpc = "page"
    /\ \/ \E n \in ComplaintCounts :
            LET complaints == [i \in 1..n |-> opened]
                needed == MAX_COMPLAINTS - Len(final_complaints)
            IN  final_complaints' = final_complaints \o TakeNeeded(complaints, needed)
       \/ UNCHANGED final_complaints     \* lines 188-189
    /\ \E enabled \in BOOLEAN :
          cpc' = IF enabled THEN "rows" ELSE "after"
    /\ UNCHANGED <<opened, page_no, rows, row, next_button, file>>
    /\ UNCHANGED <<searchVars, buildVars, smokeVars>>

\* lines 201-209: enough complaints, or the 'next' button of the result page
AfterRows ==
    /\ cpc = "after"
    /\ IF Len(final_complaints) >= MAX_COMPLAINTS
       THEN cpc' = "save" /\ UNCHANGED <<page_no, next_button>>
       ELSE \E button \in {NoneVal, "disabled", "enabled"} :
              /\ button = "enabled" => page_no < MaxPages
              /\ next_button' = button
              /\ IF button = "enabled"
                 THEN page_no' = page_no + 1 /\ cpc' = "while"
                 ELSE cpc' = "save" /\ UNCHANGED page_no
    /\ UNCHANGED <<final_complaints, opened, rows, row, file>>
    /\ UNCHANGED <<searchVars, buildVars, smokeVars>>

\* lines 211-216
Save ==
    /\ cpc = "save"
    /\ file' = final_complaints
    /\ cpc' = "saved"
    /\ UNCHANGED <<final_complaints, opened, page_no, rows, row, next_button>>
    /\ UNCHANGED <<searchVars, buildVars, smokeVars>>

NextScrape ==
    \/ ResultPage
    \/ NextRow
    \/ ComplaintsPage
    \/ AfterRows
    \/ Save

SpecScrape == InitScrape /\ [][NextScrape]_vars

\* --------------------------------------------------------------- properties
Built == pc \in {"combined", "done"}
InCorpus(pid) == pid \in DOMAIN id_to_index
RawBm25(pid) == bm25_scores[id_to_index[pid]]
DenseRank(pid) == CHOOSE i \in DOMAIN search_result : search_result[i].id = pid
SetMax(S) == CHOOSE x \in S : \A y \in S : y <= x
SetMin(S) == CHOOSE x \in S : \A y \in S : x <= y
\* min-max normalization of raw within [lo, hi]
MinMax(raw, lo, hi) == IF hi > lo THEN Frac(raw - lo, hi - lo) ELSE Zero
LexicalRaws == {RawBm25(pid) : pid \in bm25_top_ids}
DenseRaws == {vector_scores[pid] : pid \in DOMAIN vector_scores}

\* C1: a repeated call on the same snapshot returns the same ordered list
\* as the call before it, ties included.
Determinism ==
    (pc = "done" /\ runs > 1) => returned = prev_returned

\* C2: every id of the lexical top set and of the dense result has an entry
\* in the candidate list, and an id only one ranker returned carries a
\* normalized score of 0.0 for the other ranker.
UnionCorrectness ==
    Built =>
        \A pid \in bm25_top_ids \cup DOMAIN vector_scores :
            \E i \in DOMAIN results :
                /\ results[i].pid = pid
                /\ pid \notin bm25_top_ids => results[i].bm25_score[1] = 0
                /\ pid \notin DOMAIN vector_scores => results[i].vec_score[1] = 0

\* C3: each side's normalized score is (raw - min) / (max - min), or 0.0
\* when max = min, with min and max taken over that side's retrieved
\* candidates only.
MinMaxOverRetrieved ==
    Built =>
        \A i \in DOMAIN results :
            LET e == results[i]
            IN  /\ e.pid \in bm25_top_ids =>
                      FEq(e.bm25_score,
                          MinMax(RawBm25(e.pid), SetMin(LexicalRaws), SetMax(LexicalRaws)))
                /\ e.pid \in DOMAIN vector_scores =>
                      FEq(e.vec_score,
                          MinMax(vector_scores[e.pid], SetMin(DenseRaws), SetMax(DenseRaws)))

\* C4: when the lexical candidates all have the same raw score, each of
\* them has a normalized lexical score of 0.0.
DegenerateNormalization ==
    (Built /\ Cardinality(LexicalRaws) = 1) =>
        \A i \in DOMAIN results :
            results[i].pid \in bm25_top_ids => results[i].bm25_score[1] = 0

\* C5: every normalized sub-score lies in [0,1], and so does the combined
\* score when alpha lies in [0,1].
NormalizationBounds ==
    Built =>
        \A i \in DOMAIN results :
            LET e == results[i]
            IN  /\ FLeq(Zero, e.bm25_score) /\ FLeq(e.bm25_score, Frac(1, 1))
                /\ FLeq(Zero, e.vec_score) /\ FLeq(e.vec_score, Frac(1, 1))
                /\ alpha \in ValidAlphas =>
                      FLeq(Zero, e.score) /\ FLeq(e.score, Frac(1, 1))

\* a call has combined a candidate of negative raw scores on both sides
\* with a candidate at the top of the lexical scale
NormalizationBoundsWitness ==
    /\ pc = "done"
    /\ \E i \in DOMAIN results :
          /\ InCorpus(results[i].pid) /\ RawBm25(results[i].pid) < 0
          /\ results[i].pid \in DOMAIN vector_scores
          /\ vector_scores[results[i].pid] < 0
    /\ \E j \in DOMAIN results : FEq(results[j].bm25_score, Frac(1, 1))

\* C6: with alpha = 1 the returned documents are in descending order of raw
\* lexical score; with alpha = 0 the returned documents of the dense result
\* are in the order of the dense result list.
AlphaBoundary ==
    pc = "done" =>
        \A i, j \in DOMAIN returned :
            i < j =>
                /\ (alpha = AlphaDen /\ InCorpus(returned[i].pid) /\ InCorpus(returned[j].pid))
                      => RawBm25(returned[i].pid) >= RawBm25(returned[j].pid)
                /\ (alpha = 0 /\ returned[i].pid \in DOMAIN vector_scores
                              /\ returned[j].pid \in DOMAIN vector_scores)
                      => DenseRank(returned[i].pid) < DenseRank(returned[j].pid)

\* C7: a call with top_k <= 0 or alpha outside [0,1] returns no result list.
InvalidParameterRejected ==
    pc = "done" => (top_k > 0 /\ alpha \in ValidAlphas)

\* C8: a call never ends with the exception of the vector index query.
RetrievalFallback ==
    pc # "raised"

\* C9: every candidate has an entry; its metadata is the dense payload when
\* the dense result holds the candidate with one, else the payload of the
\* point lookup, else the empty mapping; it is never None.
PayloadOrEmpty(p) == IF p \in {NoneVal, EmptyDict, Absent} THEN EmptyDict ELSE p
MetadataResolution ==
    Built =>
        /\ \A pid \in candidate_ids : \E i \in DOMAIN results : results[i].pid = pid
        /\ \A i \in DOMAIN results :
              LET e == results[i]
              IN  /\ e.meta # NoneVal
                  /\ e.pid \in DOMAIN vector_scores =>
                        e.meta = PayloadOrEmpty(search_result[DenseRank(e.pid)].payload)
                  /\ e.pid \notin DOMAIN vector_scores =>
                        e.meta = PayloadOrEmpty(store[e.pid])

\* a call has resolved the three kinds of metadata: a dense payload, a
\* looked-up payload or none at all
MetadataResolutionWitness ==
    /\ pc = "done"
    /\ \E i \in DOMAIN results :
          /\ results[i].pid \notin DOMAIN vector_scores
          /\ store[results[i].pid] \in {Absent, NoneVal}
          /\ results[i].meta = EmptyDict
    /\ \E i \in DOMAIN results :
          /\ results[i].pid \in DOMAIN vector_scores
          /\ results[i].meta \in {PayloadOf(results[i].pid), EmptyDict}

\* C10: for top_k > 0 the returned list has min(top_k, number of candidates)
\* entries and no id twice.
TopKTruncation ==
    (pc = "done" /\ top_k > 0) =>
        /\ Len(returned) = IF top_k < Cardinality(candidate_ids)
                           THEN top_k ELSE Cardinality(candidate_ids)
        /\ \A i, j \in DOMAIN returned : i # j => returned[i].pid # returned[j].pid

\* a call has cut its candidates down to top_k
TopKTruncationWitness ==
    /\ pc = "done"
    /\ top_k > 0
    /\ top_k < Cardinality(candidate_ids)
    /\ Len(returned) = top_k

\* the entries of the dense result among the returned ones
IsDense(e) == e.pid \in DOMAIN vector_scores

\* C11: the empty query string tokenizes to no tokens and scores every
\* document zero; the normalized lexical score of every candidate is then
\* 0.0, and at alpha = 0.5 with dense scores that are not all the same the
\* returned dense candidates are in the order of their dense scores.
EmptyQuery ==
    query = <<>> =>
        /\ simple_tokenize(query) = <<>>
        /\ \A i \in DOMAIN bm25_scores : bm25_scores[i] = 0
        /\ pc # "start" => (max_bm25 = 1 /\ min_bm25 = 0)
        /\ Built => \A i \in DOMAIN results : FEq(results[i].bm25_score, Zero)
        /\ (pc = "done" /\ 2 * alpha = AlphaDen /\ Cardinality(DenseRaws) > 1) =>
              \A i, j \in DOMAIN returned :
                  (i < j /\ IsDense(returned[i]) /\ IsDense(returned[j])) =>
                      vector_scores[returned[i].pid] >= vector_scores[returned[j].pid]

\* a call with the empty query at alpha = 0.5 has returned two dense
\* candidates of different dense scores above a candidate of the corpus
EmptyQueryWitness ==
    /\ pc = "done"
    /\ query = <<>>
    /\ 2 * alpha = AlphaDen
    /\ \E i, j \in DOMAIN returned :
          /\ i < j
          /\ IsDense(returned[i]) /\ IsDense(returned[j])
          /\ vector_scores[returned[i].pid] > vector_scores[returned[j].pid]
    /\ \E i \in DOMAIN results : ~IsDense(results[i])

\* C14: the returned list is in non-increasing order of combined score, and
\* no candidate left out has a combined score strictly greater than that of
\* a returned entry.
TopKSelection ==
    pc = "done" =>
        /\ \A i, j \in DOMAIN returned :
              i < j => ~FLess(returned[i].score, returned[j].score)
        /\ \A c \in DOMAIN results :
              (\A r \in DOMAIN returned : returned[r].pid # results[c].pid) =>
                  \A r \in DOMAIN returned :
                      ~FLess(returned[r].score, results[c].score)

\* a call has returned entries of different combined scores and left out a
\* candidate that scores below the last of them
TopKSelectionWitness ==
    /\ pc = "done"
    /\ Len(returned) = top_k
    /\ FLess(returned[Len(returned)].score, returned[1].score)
    /\ \E c \in DOMAIN results :
          /\ \A r \in DOMAIN returned : returned[r].pid # results[c].pid
          /\ FLess(results[c].score, returned[Len(returned)].score)

HasId(obj) == obj.id # NoId
HasText(obj) == obj.text # NoText
IsValid(obj) == HasId(obj) /\ HasText(obj)
\* the ids of the points of the upserts, in the order of their arrival
RECURSIVE UpsertedIds(_)
UpsertedIds(batches) ==
    IF batches = <<>> THEN <<>>
    ELSE [i \in DOMAIN Head(batches) |-> Head(batches)[i].id] \o UpsertedIds(Tail(batches))
IdsOf(objs) == [i \in DOMAIN objs |-> objs[i].id]

\* C12: an object without id or without text is skipped and never ends the
\* load or the build; whatever enters the lexical corpus or the vector index
\* has an id and a text; the valid objects after a bad one are indexed; and
\* a file without a valid object does not end in a completed build.
CorpusLoadPolicy ==
    /\ bpc # "raised"
    /\ lpc # "raised"
    /\ \A i \in DOMAIN docs : docs[i] # NoText /\ corpus_ids[i] # NoId
    /\ \A b \in DOMAIN upserts : \A i \in DOMAIN upserts[b] :
          upserts[b][i].id # NoId /\ upserts[b][i].payload.full_text # NoText
    /\ bpc = "done" =>
          /\ UpsertedIds(upserts) = IdsOf(SelectSeq(records, IsValid))
          /\ \E i \in DOMAIN records : IsValid(records[i])
    /\ lpc = "loaded" =>
          /\ corpus_ids = IdsOf(SelectSeq(records, IsValid))
          /\ \E i \in DOMAIN records : IsValid(records[i])

\* C15: every object with a text is upserted exactly once, in file order;
\* an upsert carries 1 to BATCH_SIZE points, BATCH_SIZE but for the last;
\* the three batch lists are of one length, below BATCH_SIZE between the
\* objects and empty after the last flush; and when main has ended, total
\* counts the objects with a text and all of them are upserted.
BatchedIndexing ==
    /\ Len(ids_batch) = Len(vectors_batch)
    /\ Len(ids_batch) = Len(payloads_batch)
    /\ Len(ids_batch) < BATCH_SIZE
    /\ \A b \in DOMAIN upserts :
          /\ Len(upserts[b]) >= 1
          /\ Len(upserts[b]) <= BATCH_SIZE
          /\ (b < Len(upserts) \/ bpc = "loop") => Len(upserts[b]) = BATCH_SIZE
    /\ total = Len(UpsertedIds(upserts))
    /\ bpc = "loop" =>
          UpsertedIds(upserts) \o ids_batch
              = IdsOf(SelectSeq(SubSeq(records, 1, pos), HasText))
    /\ bpc = "done" =>
          (ids_batch = <<>> /\ vectors_batch = <<>> /\ payloads_batch = <<>>)
    /\ bpc \in {"done", "raised"} =>
          /\ total = Len(SelectSeq(records, HasText))
          /\ UpsertedIds(upserts) = IdsOf(SelectSeq(records, HasText))

Printed(what) == \E i \in DOMAIN output : output[i] = what
SmokeEnded == tpc \in {"returned", "exit", "raised"}
\* Qdrant gives main a list of results
QdrantSucceeds ==
    /\ existing_dirs \cap Range(QDRANT_CANDIDATE_DIRS) # {}
    /\ importable
    /\ client_opens
    /\ query_answer = "points"

\* C13: the results of Qdrant are printed, and the JSONL fallback is not
\* run, when a candidate directory exists and the query succeeds; in every
\* other case the run ends with the results of the JSONL fallback or, when
\* the JSONL file does not exist, with SystemExit; no run ends with an
\* exception of Qdrant.
QdrantFallback ==
    /\ tpc # "raised"
    /\ (SmokeEnded /\ QdrantSucceeds) =>
          (tpc = "returned" /\ Printed("qdrant_results") /\ ~Printed("fallback_results"))
    /\ (SmokeEnded /\ ~QdrantSucceeds) =>
          /\ ~Printed("qdrant_results")
          /\ IF jsonl_exists
             THEN tpc = "returned" /\ Printed("fallback_results")
             ELSE tpc = "exit" /\ Printed("JSONL not found")

\* number of collected complaints that came from complaints page p
FromPage(p) == Cardinality({i \in DOMAIN final_complaints : final_complaints[i] = p})

\* C16: never more than MAX_COMPLAINTS complaints are collected, at most 5
\* of them from one complaints page; no complaints page is opened and no
\* result page is processed once MAX_COMPLAINTS are collected; a further
\* result page is reached only by an enabled 'next' button; and the file
\* written holds at most MAX_COMPLAINTS complaints.
CollectionBound ==
    /\ Len(final_complaints) <= MAX_COMPLAINTS
    /\ \A p \in 1..opened : FromPage(p) <= 5
    /\ cpc = "page" => Len(final_complaints) < MAX_COMPLAINTS
    /\ (cpc = "while" \/ (cpc = "rows" /\ row = 0)) =>
          Len(final_complaints) < MAX_COMPLAINTS
    /\ (cpc = "while" /\ page_no > 1) => next_button = "enabled"
    /\ cpc = "saved" => (file = final_complaints /\ Len(file) <= MAX_COMPLAINTS)

\* a year was saved with MAX_COMPLAINTS complaints from two result pages,
\* the last complaints page cut down to what was still needed
CollectionBoundWitness ==
    /\ cpc = "saved"
    /\ Len(file) = MAX_COMPLAINTS
    /\ page_no > 1
    /\ FromPage(opened) \in 1..2

====
